---- MODULE Spec2Model ----
(***************************************************************************)
(* Materialization pipeline of nclustgen: the dense and sparse decoders    *)
(* of the engine's Matrix Result (BiclusterGenerator, TriclusterGenerator) *)
(* and the two graph builders (dgl, networkx).                             *)
(*                                                                         *)
(* A numpy array is a record [shape, data] with data in row-major order.   *)
(* A sparse tensor is a record [shape, nz] with nz the function from the   *)
(* stored (non-zero) multi-indices, 0-based, to their values.              *)
(* A text is a sequence of one-character strings.                          *)
(***************************************************************************)
EXTENDS Integers, Sequences, FiniteSets, TLC

\* ------------------------------------------------------------------ bounds
MaxRows == 21
MaxCols == 2
MaxContexts == 2
MaxSeed == 1
MaxExtra == 2
MaxParams == 3
MaxParamValue == 2

\* ------------------------------------------------------- program constants
\* the divisor of the row count that gives the chunk size (threshold)
ChunkDivisor == 10

None == [none |-> TRUE]

VARIABLES
    generatedDataset,   \* the engine's Matrix Result: [n, rows, cols, contexts, seed,
                        \* bad], bad = [row, extra]: the serialized row that has
                        \* extra values too many (row -1: none has)
    offsetUnit,         \* how the engine reads its third argument: "row" | "chunk"
    pc,                 \* "idle" | "sparse" (inside the loop of java_to_sparse)
    requests,           \* the calls made to io.matrixToStringColOriented, in order
    X,                  \* result of java_to_numpy: None, an array, or an error
    threshold,          \* java_to_sparse: local threshold
    steps,              \* java_to_sparse: local steps (a sequence of step numbers)
    stepIdx,            \* java_to_sparse: position of the for loop in steps
    tensors,            \* java_to_sparse: local accumulator
    S,                  \* result of java_to_sparse: None, a sparse tensor, or an error
    G,                  \* result of to_graph: None, or a graph
    self,               \* the generator object: None, or [class, n, contiguity, seed]
    config,             \* the parameters given to the constructor (by-config: read
                        \* from the file), None when there are none
    inits,              \* the keyword arguments of each Generator.__init__ call made
    structure,          \* result of build_structure: None, or the structure object
    params,             \* the caller's parameter list handed to build_generator
    buildCall,          \* the arguments build_generator was called with, or None
    engineCall          \* the call build_generator made to the engine, or None

buildVars == <<self, config, inits, structure, params, buildCall, engineCall>>

vars == <<generatedDataset, offsetUnit, pc, requests, X, threshold, steps, stepIdx,
          tensors, S, G, buildVars>>

\* ------------------------------------------------------------ small helpers
Range(n) == [k \in 1..n |-> k - 1]

RECURSIVE Prod(_)
Prod(s) == IF s = <<>> THEN 1 ELSE Head(s) * Prod(Tail(s))

\* the sequences ss[lo], ..., ss[hi] one after the other
RECURSIVE FlattenRange(_, _, _)
FlattenRange(ss, lo, hi) ==
    IF lo > hi THEN <<>>
    ELSE IF lo = hi THEN ss[lo]
    ELSE LET mid == (lo + hi) \div 2
         IN FlattenRange(ss, lo, mid) \o FlattenRange(ss, mid + 1, hi)

Flatten(ss) == FlattenRange(ss, 1, Len(ss))

Error(kind) == [error |-> kind]
IsError(v) == "error" \in DOMAIN v
IsArray(v) == "shape" \in DOMAIN v

\* --------------------------------------------------- the engine's text form
Digit == <<"0", "1", "2", "3", "4", "5", "6", "7", "8", "9">>

\* Java's string form of a non-negative int
RECURSIVE ToStr(_)
ToStr(k) == IF k < 10 THEN <<Digit[k + 1]>>
            ELSE ToStr(k \div 10) \o <<Digit[(k % 10) + 1]>>

\* the value the engine planted in cell (row i, context z, column j)
Cell(ds, i, z, j) == ds.seed + (i * ds.contexts + z) * ds.cols + j

\* the number of values in serialized row i
RowValues(ds, i) == ds.contexts * ds.cols + (IF i = ds.bad.row THEN ds.bad.extra ELSE 0)

\* one serialized row: "x<i>" then, context after context, the cols values of
\* the row, every value preceded by a tab, and a newline at the end
RowText(ds, i) ==
    <<"x">> \o ToStr(i)
    \o Flatten([k \in 1..RowValues(ds, i) |->
            <<"\t">> \o ToStr(Cell(ds, i, (k - 1) \div ds.cols, (k - 1) % ds.cols))])
    \o <<"\n">>

\* the first row of a request: the engine reads its third argument either as
\* a row offset or as a chunk number (first row = step * threshold)
FirstRow(unit, count, step) == IF unit = "row" THEN step ELSE step * count

\* io.matrixToStringColOriented(generatedDataset, threshold, step, False)
matrixToStringColOriented(ds, unit, count, step) ==
    Flatten([k \in 1..count |-> RowText(ds, FirstRow(unit, count, step) + k - 1)])

\* ---------------------------------------------------------- Python str ops
\* the pieces of s[lo..hi] between the separators: the two halves are split
\* and the last piece of the left half continues in the first of the right
RECURSIVE SplitRange(_, _, _, _)
SplitRange(s, sep, lo, hi) ==
    IF lo > hi THEN << <<>> >>
    ELSE IF lo = hi THEN (IF s[lo] = sep THEN << <<>>, <<>> >> ELSE << <<s[lo]>> >>)
    ELSE LET mid == (lo + hi) \div 2
             l == SplitRange(s, sep, lo, mid)
             r == SplitRange(s, sep, mid + 1, hi)
         IN SubSeq(l, 1, Len(l) - 1) \o <<l[Len(l)] \o r[1]>> \o Tail(r)

\* str.split(sep): always at least one piece; "" splits into [""]
Split(s, sep) == SplitRange(s, sep, 1, Len(s))

\* lst[0:]: the index column is kept
DropFirst_keep(lst) == lst

\* lst[1:]
DropFirst(lst) == IF lst = <<>> THEN <<>> ELSE Tail(lst)

\* lst[:-1]
DropLast(lst) == IF lst = <<>> THEN <<>> ELSE SubSeq(lst, 1, Len(lst) - 1)

NaN == -1

DigitVal(c) == CHOOSE d \in 0..9 : Digit[d + 1] = c

RECURSIVE ParseFrom(_, _, _)
ParseFrom(tok, i, acc) ==
    IF i > Len(tok) THEN acc ELSE ParseFrom(tok, i + 1, 10 * acc + DigitVal(tok[i]))

\* utils.tensor_value_check: the number a token stands for; the missing-value
\* token (no digits) is NaN
tvc(tok) ==
    IF tok = <<>> \/ \E i \in 1..Len(tok) : tok[i] \notin {Digit[d] : d \in 1..10}
    THEN NaN
    ELSE ParseFrom(tok, 1, 0)

\* [tvc(val) for val in row.split('\t')[1:]]
DecodeRow(row) ==
    LET toks == DropFirst(Split(row, "\t"))
    IN [c \in 1..Len(toks) |-> tvc(toks[c])]

\* [[tvc(val) for val in row.split('\t')[1:]] for row in tensor.split('\n')][:-1]
DecodeRows(text) ==
    LET lines == Split(text, "\n")
    IN DropLast([r \in 1..Len(lines) |-> DecodeRow(lines[r])])

\* ------------------------------------------------------------------- numpy
SameLen(ss) == \A a, b \in 1..Len(ss) : Len(ss[a]) = Len(ss[b])

\* np.array of a list of lists of numbers
NpArray2(ll) ==
    IF ll = <<>> THEN [shape |-> <<0>>, data |-> <<>>]
    ELSE IF SameLen(ll) THEN [shape |-> <<Len(ll), Len(ll[1])>>, data |-> Flatten(ll)]
    ELSE Error("ValueError")

\* np.array_split(lst, k): k sections, the first Len(lst) % k one longer
array_split(lst, k) ==
    LET each == Len(lst) \div k
        extras == Len(lst) % k
        start(m) == (m - 1) * each + (IF m - 1 < extras THEN m - 1 ELSE extras)
    IN [m \in 1..k |-> SubSeq(lst, start(m) + 1, start(m + 1))]

\* np.array of a list (rows) of lists (sections) of lists of numbers
NpArray3(lll) ==
    IF lll = <<>> THEN [shape |-> <<0>>, data |-> <<>>]
    ELSE IF SameLen(lll) /\ SameLen(Flatten(lll))
    THEN [shape |-> <<Len(lll), Len(lll[1]), Len(lll[1][1])>>,
          data |-> Flatten(Flatten(lll))]
    ELSE Error("ValueError")

\* ndarray.reshape(shape): the same data in row-major order under a new shape
Reshape(a, shape) ==
    IF Prod(a.shape) = Prod(shape) THEN [shape |-> shape, data |-> a.data]
    ELSE Error("ValueError")

\* the multi-indices (0-based) of a shape of rank 2 or 3
Indices(shape) ==
    IF Len(shape) = 2
    THEN {<<i, j>> : i \in 0..(shape[1] - 1), j \in 0..(shape[2] - 1)}
    ELSE {<<z, i, j>> : z \in 0..(shape[1] - 1), i \in 0..(shape[2] - 1),
                        j \in 0..(shape[3] - 1)}

\* row-major position of a multi-index
Offset(shape, idx) ==
    IF Len(shape) = 2 THEN idx[1] * shape[2] + idx[2]
    ELSE (idx[1] * shape[2] + idx[2]) * shape[3] + idx[3]

Unravel(shape, k) ==
    IF Len(shape) = 2 THEN <<k \div shape[2], k % shape[2]>>
    ELSE <<k \div (shape[2] * shape[3]), (k \div shape[3]) % shape[2], k % shape[3]>>

\* a[idx]
At(a, idx) == a.data[Offset(a.shape, idx) + 1]

\* ------------------------------------------------- scipy.sparse and sparse
\* csr_matrix(dense) / COO.from_numpy(dense): only the non-zero entries are stored
FromDense(a) ==
    IF IsError(a) THEN a
    ELSE [shape |-> a.shape,
          nz |-> [idx \in {q \in Indices(a.shape) : At(a, q) # 0} |-> At(a, idx)]]

\* s[idx] of a sparse tensor
SparseAt(s, idx) == IF idx \in DOMAIN s.nz THEN s.nz[idx] ELSE 0

\* COO.reshape(shape): every stored entry keeps its row-major position
SparseReshape(s, shape) ==
    IF IsError(s) THEN s
    ELSE IF Prod(s.shape) # Prod(shape) THEN Error("ValueError")
    ELSE LET to(q) == Unravel(shape, Offset(s.shape, q))
         IN [shape |-> shape,
             nz |-> [idx \in {to(q) : q \in DOMAIN s.nz} |->
                        s.nz[CHOOSE q \in DOMAIN s.nz : to(q) = idx]]]

\* vstack(tensors) is Concatenate(tensors, 1); concatenate(tensors, axis=1) is
\* Concatenate(tensors, 2): the blocks one after the other along the axis
Concatenate(ts, axis) ==
    IF ts = <<>> THEN Error("ValueError")
    ELSE IF \E k \in 1..Len(ts) :
               [ts[k].shape EXCEPT ![axis] = 0] # [ts[1].shape EXCEPT ![axis] = 0]
    THEN Error("ValueError")
    ELSE LET RECURSIVE before(_)
             before(k) == IF k = 1 THEN 0 ELSE before(k - 1) + ts[k - 1].shape[axis]
             move(q, d) == [q EXCEPT ![axis] = @ + d]
             block(idx) == CHOOSE k \in 1..Len(ts) :
                               /\ before(k) <= idx[axis]
                               /\ idx[axis] < before(k) + ts[k].shape[axis]
         IN [shape |-> [ts[1].shape EXCEPT ![axis] = before(Len(ts) + 1)],
             nz |-> [idx \in UNION {{move(q, before(k)) : q \in DOMAIN ts[k].nz} :
                                      k \in 1..Len(ts)} |->
                        ts[block(idx)].nz[move(idx, 0 - before(block(idx)))]]]

\* ------------------------------------------------------ the materializers
\* BiclusterGenerator.java_to_numpy, given the text of its one request
Bi_java_to_numpy(text) == NpArray2(DecodeRows(text))

\* BiclusterGenerator.java_to_sparse, the body of the loop: one chunk
Bi_chunk(text) == FromDense(NpArray2(DecodeRows(text)))

\* [np.array_split([tvc(val) ...], contexts) for row in tensor.split('\n')][:-1]
DecodeSplitRows(text, contexts) ==
    LET lines == Split(text, "\n")
    IN DropLast([r \in 1..Len(lines) |-> array_split(DecodeRow(lines[r]), contexts)])

\* TriclusterGenerator.java_to_numpy, given the text of its one request
Tri_java_to_numpy(text, ds) ==
    LET tensor == NpArray3(DecodeSplitRows(text, ds.contexts))
    IN IF IsError(tensor) THEN tensor
       ELSE Reshape(tensor, <<ds.contexts, ds.rows, ds.cols>>)

\* TriclusterGenerator.java_to_sparse, the body of the loop: one chunk
Tri_chunk(text, ds, thr) ==
    SparseReshape(FromDense(NpArray3(DecodeSplitRows(text, ds.contexts))),
                  <<ds.contexts, thr, ds.cols>>)

\* the chunk size is the whole row count
Threshold_all(ds) == ds.rows

\* threshold = int(generatedDataset.getNumRows() / 10)
Threshold(ds) == ds.rows \div ChunkDivisor

\* steps = [i for i in range(int(generatedDataset.getNumRows() / threshold))]
Steps(ds, thr) == Range(ds.rows \div thr)

\* return vstack(tensors) / return concatenate(tensors, axis=1)
SparseResult(ds, ts) == IF ds.n = 2 THEN Concatenate(ts, 1) ELSE Concatenate(ts, 2)

\* ------------------------------------------------------------------ graphs
Float(v) == [type |-> "float", val |-> v]
Str(v) == [type |-> "str", val |-> ToStr(v)]

Zeros(k) == [i \in 1..k |-> 0]

Max(set) == CHOOSE m \in set : \A k \in set : k <= m

\* dgl.heterograph(graph_data): the number of nodes of a type is one more
\* than the largest node id of that type in the edge lists
NumNodes(ids) == IF ids = {} THEN 0 ELSE Max(ids) + 1

\* the row and the column number taken the wrong way round
Cells2_swapped(x) ==
    [k \in 1..Prod(x.shape) |->
        LET q == Unravel(x.shape, k - 1) IN [i |-> q[2], j |-> q[1], elem |-> At(x, q)]]

\* [[i, j, elem] for i, row in enumerate(x) for j, elem in enumerate(row)]
Cells2(x) ==
    [k \in 1..Prod(x.shape) |->
        LET q == Unravel(x.shape, k - 1) IN [i |-> q[1], j |-> q[2], elem |-> At(x, q)]]

\* only the cells of the first context are listed
Cells3_first(x) ==
    [k \in 1..(x.shape[2] * x.shape[3]) |->
        LET q == Unravel(x.shape, k - 1)
        IN [z |-> q[1], i |-> q[2], j |-> q[3], elem |-> At(x, q)]]

\* [[i, j, z, elem] for z, ctx in enumerate(x) for i, row in enumerate(ctx)
\*                  for j, elem in enumerate(row)]
Cells3(x) ==
    [k \in 1..Prod(x.shape) |->
        LET q == Unravel(x.shape, k - 1)
        IN [z |-> q[1], i |-> q[2], j |-> q[3], elem |-> At(x, q)]]

\* BiclusterGenerator.dense_to_dgl, with cuda at its default 0
Bi_dense_to_dgl(x, device) ==
    LET tensor == Cells2(x)
        N == Len(tensor)
    IN [framework |-> "dgl",
        edges |-> [row_col |-> [k \in 1..N |-> <<tensor[k].i, tensor[k].j>>]],
        w |-> [row_col |-> [k \in 1..N |-> Float(tensor[k].elem)]],
        num_nodes |-> [row |-> NumNodes({tensor[k].i : k \in 1..N}),
                       col |-> NumNodes({tensor[k].j : k \in 1..N})],
        c |-> [row |-> Zeros(x.shape[1]), col |-> Zeros(x.shape[2])],
        device |-> IF device = "gpu" THEN "cuda:0" ELSE "cpu"]

\* TriclusterGenerator.dense_to_dgl
Tri_dense_to_dgl(x, device) ==
    LET tensor == Cells3(x)
        N == Len(tensor)
    IN [framework |-> "dgl",
        edges |-> [row_col |-> [k \in 1..N |-> <<tensor[k].i, tensor[k].j>>],
                   row_ctx |-> [k \in 1..N |-> <<tensor[k].i, tensor[k].z>>],
                   col_ctx |-> [k \in 1..N |-> <<tensor[k].j, tensor[k].z>>]],
        w |-> [row_col |-> [k \in 1..N |-> Float(tensor[k].elem)],
               row_ctx |-> [k \in 1..N |-> Float(tensor[k].elem)],
               col_ctx |-> [k \in 1..N |-> Float(tensor[k].elem)]],
        num_nodes |-> [row |-> NumNodes({tensor[k].i : k \in 1..N}),
                       col |-> NumNodes({tensor[k].j : k \in 1..N}),
                       ctx |-> NumNodes({tensor[k].z : k \in 1..N})],
        c |-> [row |-> Zeros(x.shape[2]), col |-> Zeros(x.shape[3]),
               ctx |-> Zeros(x.shape[1])],
        device |-> IF device = "gpu" THEN "cuda" ELSE "cpu"]

\* the nodes of every type counted along the first axis of x
NxNodes_axis0(x, axes) ==
    LET names == UNION {{<<axes[a], i>> : i \in 0..(x.shape[1] - 1)} : a \in 1..Len(axes)}
    IN [name \in names |->
           [cluster |-> 0,
            bipartide |-> (CHOOSE a \in 1..Len(axes) : axes[a] = name[1]) - 1]]

\* G.add_nodes_from(((name, {'cluster': 0}) for i in range(x.shape[n])), bipartide=n)
\* for n, axis in enumerate(axes)
NxNodes(x, axes) ==
    LET names == UNION {{<<axes[a], i>> : i \in 0..(x.shape[a] - 1)} : a \in 1..Len(axes)}
    IN [name \in names |->
           [cluster |-> 0,
            bipartide |-> (CHOOSE a \in 1..Len(axes) : axes[a] = name[1]) - 1]]

\* nx.Graph.add_weighted_edges_from(ebunch): the graph is simple and
\* undirected, so an edge given again replaces the weight of the edge
NxEdges(ebunch) ==
    LET pair(e) == {e[1], e[2]}
        last(p) == Max({k \in 1..Len(ebunch) : pair(ebunch[k]) = p})
    IN [p \in {pair(ebunch[k]) : k \in 1..Len(ebunch)} |-> ebunch[last(p)][3]]

\* BiclusterGenerator.dense_to_networkx
Bi_dense_to_networkx(x) ==
    LET cells == Cells2(x)
    IN [framework |-> "networkx",
        nodes |-> NxNodes(x, <<"row", "col">>),
        edges |-> NxEdges([k \in 1..Len(cells) |->
                     <<<<"row", cells[k].i>>, <<"col", cells[k].j>>,
                       Float(cells[k].elem)>>])]

\* TriclusterGenerator.dense_to_networkx: np.array of the (str, str, elem)
\* triples is an array of strings, so every weight is the string of elem
Tri_dense_to_networkx(x) ==
    LET cells == Cells3(x)
        edges == [k \in 1..Len(cells) |->
                    << <<<<"row", cells[k].i>>, <<"col", cells[k].j>>, Str(cells[k].elem)>>,
                       <<<<"row", cells[k].i>>, <<"ctx", cells[k].z>>, Str(cells[k].elem)>>,
                       <<<<"col", cells[k].j>>, <<"ctx", cells[k].z>>, Str(cells[k].elem)>> >>]
    IN [framework |-> "networkx",
        nodes |-> NxNodes(x, <<"ctx", "row", "col">>),
        edges |-> NxEdges(Flatten(edges))]

\* ---------------------------------------------------- generator and builders
DefaultSeed == -1

\* a call without keyword arguments
NoKwargs == [none |-> TRUE]

\* Generator.__init__(n, **kwargs): every attribute is set, from the keyword
\* argument when it is given and to its default otherwise
GeneratorInit(class, n, kwargs) ==
    [class |-> class,
     n |-> n,
     contiguity |-> IF "contiguity" \in DOMAIN kwargs THEN kwargs.contiguity ELSE "NONE",
     seed |-> IF "seed" \in DOMAIN kwargs THEN kwargs.seed ELSE DefaultSeed]

\* BiclusterGenerator.__init__ is Generator.__init__ with n=2,
\* TriclusterGenerator.__init__ with n=3
AxesOf(class) ==
    IF class \in {"BiclusterGenerator", "BiclusterGeneratorbyConfig"} THEN 2 ELSE 3

\* the Generator.__init__ calls of BiclusterGeneratorbyConfig.__init__(file_path);
\* file is the content of the file, None without a file path
Bi_byConfig_init(file) == IF file # None THEN <<file>> ELSE <<NoKwargs>>

\* the Generator.__init__ calls of TriclusterGeneratorbyConfig.__init__(file_path)
Tri_byConfig_init(file) == (IF file # None THEN <<file>> ELSE <<>>) \o <<NoKwargs>>

\* the object after the __init__ calls, made one after the other on it
Constructed(class, calls) == GeneratorInit(class, AxesOf(class), calls[Len(calls)])

\* build_structure without the normalization of the contiguity
Bi_build_structure_asis(obj) ==
    [self |-> obj,
     structure |-> [settings |-> <<"Rows", "Columns">>,
                    contiguity |-> obj.contiguity]]

\* BiclusterGenerator.build_structure: [the generator after, the structure]
Bi_build_structure(obj) ==
    LET after == IF obj.contiguity = "CONTEXTS" THEN [obj EXCEPT !.contiguity = "NONE"]
                 ELSE obj
    IN [self |-> after,
        structure |-> [settings |-> <<"Rows", "Columns">>,
                       contiguity |-> after.contiguity]]

\* TriclusterGenerator.build_structure
Tri_build_structure(obj) ==
    [self |-> obj,
     structure |-> [settings |-> <<"Rows", "Columns", "Contexts">>,
                    contiguity |-> obj.contiguity]]

\* a deletion of the entry before the one at index
DelAt_before(lst, index) ==
    IF index = 0 THEN SubSeq(lst, 2, Len(lst))
    ELSE SubSeq(lst, 1, index - 1) \o SubSeq(lst, index + 1, Len(lst))

\* del lst[index], 0 <= index < len(lst)
DelAt(lst, index) == SubSeq(lst, 1, index) \o SubSeq(lst, index + 2, Len(lst))

\* BiclusterGenerator.build_generator: [the caller's list after, the engine call]
Bi_build_generator(class_call, lst, contexts_index) ==
    LET after == DelAt(lst, contexts_index)
    IN [params |-> after, call |-> [class |-> class_call, args |-> after]]

\* TriclusterGenerator.build_generator
Tri_build_generator(class_call, lst, contexts_index) ==
    [params |-> lst, call |-> [class |-> class_call, args |-> lst]]

\* ----------------------------------------------------------------- actions
WellFormed == [row |-> 0 - 1, extra |-> 0]

Datasets ==
    {[n |-> 2, rows |-> r, cols |-> c, contexts |-> 1, seed |-> s, bad |-> WellFormed] :
        r \in 1..MaxRows, c \in 1..MaxCols, s \in 0..MaxSeed}
    \cup
    {[n |-> 3, rows |-> r, cols |-> c, contexts |-> z, seed |-> s, bad |-> WellFormed] :
        r \in 1..MaxRows, c \in 1..MaxCols, z \in 1..MaxContexts, s \in 0..MaxSeed}

\* 3-axis Matrix Results whose first or last serialized row has too many values
MalformedDatasets ==
    {[n |-> 3, rows |-> r, cols |-> c, contexts |-> z, seed |-> s,
      bad |-> [row |-> IF b = "first" THEN 0 ELSE r - 1, extra |-> e]] :
        r \in 1..MaxRows, c \in 1..MaxCols, z \in 1..MaxContexts, s \in 0..MaxSeed,
        b \in {"first", "last"}, e \in 1..MaxExtra}

Materializing(datasets) ==
    /\ generatedDataset \in datasets
    /\ offsetUnit \in {"row", "chunk"}
    /\ pc = "idle"
    /\ requests = <<>>
    /\ X = None
    /\ threshold = 0
    /\ steps = <<>>
    /\ stepIdx = 0
    /\ tensors = <<>>
    /\ S = None
    /\ G = None
    /\ self = GeneratorInit(IF generatedDataset.n = 2 THEN "BiclusterGenerator"
                            ELSE "TriclusterGenerator", generatedDataset.n, NoKwargs)
    /\ config = None
    /\ inits = <<NoKwargs>>
    /\ structure = None
    /\ params = <<>>
    /\ buildCall = None
    /\ engineCall = None

Init == Materializing(Datasets)

Request(caller, count, step) ==
    [caller |-> caller, count |-> count, step |-> step, header |-> FALSE]

\* java_to_numpy(generatedDataset)
JavaToNumpy ==
    /\ pc = "idle"
    /\ X = None
    /\ LET ds == generatedDataset
           text == matrixToStringColOriented(ds, offsetUnit, ds.rows, 0)
       IN /\ requests' = Append(requests, Request("java_to_numpy", ds.rows, 0))
          /\ X' = IF ds.n = 2 THEN Bi_java_to_numpy(text) ELSE Tri_java_to_numpy(text, ds)
    /\ UNCHANGED buildVars
    /\ UNCHANGED <<generatedDataset, offsetUnit, pc, threshold, steps, stepIdx, tensors,
                   S, G>>

\* java_to_sparse(generatedDataset), up to the for loop; the division by a
\* zero threshold raises ZeroDivisionError
JavaToSparseBegin ==
    /\ pc = "idle"
    /\ S = None
    /\ threshold' = Threshold(generatedDataset)
    /\ tensors' = <<>>
    /\ IF threshold' = 0
       THEN /\ S' = Error("ZeroDivisionError")
            /\ UNCHANGED <<pc, steps, stepIdx>>
       ELSE /\ steps' = Steps(generatedDataset, threshold')
            /\ stepIdx' = 1
            /\ pc' = "sparse"
            /\ S' = S
    /\ UNCHANGED buildVars
    /\ UNCHANGED <<generatedDataset, offsetUnit, requests, X, G>>

\* java_to_sparse, one pass of the for loop
JavaToSparseChunk ==
    /\ pc = "sparse"
    /\ stepIdx <= Len(steps)
    /\ LET ds == generatedDataset
           step == steps[stepIdx]
           text == matrixToStringColOriented(ds, offsetUnit, threshold, step)
           tensor == IF ds.n = 2 THEN Bi_chunk(text) ELSE Tri_chunk(text, ds, threshold)
       IN /\ requests' = Append(requests, Request("java_to_sparse", threshold, step))
          /\ IF IsError(tensor)
             THEN /\ S' = tensor
                  /\ pc' = "idle"
                  /\ UNCHANGED <<tensors, stepIdx>>
             ELSE /\ tensors' = Append(tensors, tensor)
                  /\ stepIdx' = stepIdx + 1
                  /\ UNCHANGED <<S, pc>>
    /\ UNCHANGED buildVars
    /\ UNCHANGED <<generatedDataset, offsetUnit, X, threshold, steps, G>>

\* java_to_sparse, the return after the loop
JavaToSparseReturn ==
    /\ pc = "sparse"
    /\ stepIdx > Len(steps)
    /\ S' = SparseResult(generatedDataset, tensors)
    /\ pc' = "idle"
    /\ UNCHANGED buildVars
    /\ UNCHANGED <<generatedDataset, offsetUnit, requests, X, threshold, steps, stepIdx,
                   tensors, G>>

\* to_graph(x, framework='dgl', device=device) on the dense tensor
DenseToDgl ==
    /\ pc = "idle"
    /\ IsArray(X)
    /\ G = None
    /\ \E device \in {"cpu", "gpu"} :
          G' = IF generatedDataset.n = 2 THEN Bi_dense_to_dgl(X, device)
               ELSE Tri_dense_to_dgl(X, device)
    /\ UNCHANGED buildVars
    /\ UNCHANGED <<generatedDataset, offsetUnit, pc, requests, X, threshold, steps,
                   stepIdx, tensors, S>>

\* to_graph(x, framework='networkx') on the dense tensor
DenseToNetworkx ==
    /\ pc = "idle"
    /\ IsArray(X)
    /\ G = None
    /\ G' = IF generatedDataset.n = 2 THEN Bi_dense_to_networkx(X)
            ELSE Tri_dense_to_networkx(X)
    /\ UNCHANGED buildVars
    /\ UNCHANGED <<generatedDataset, offsetUnit, pc, requests, X, threshold, steps,
                   stepIdx, tensors, S>>

Next ==
    \/ JavaToNumpy
    \/ JavaToSparseBegin
    \/ JavaToSparseChunk
    \/ JavaToSparseReturn
    \/ DenseToDgl
    \/ DenseToNetworkx

Spec == Init /\ [][Next]_vars

\* the materializers on a Matrix Result with a malformed serialized row
InitMalformed == Materializing(MalformedDatasets)

NextMalformed ==
    \/ JavaToNumpy
    \/ JavaToSparseBegin
    \/ JavaToSparseChunk
    \/ JavaToSparseReturn

SpecMalformed == InitMalformed /\ [][NextMalformed]_vars

\* ------------------------------------------------------------------ claims
\* the logical shape of the Matrix Result
LogicalShape(ds) ==
    IF ds.n = 2 THEN <<ds.rows, ds.cols>> ELSE <<ds.contexts, ds.rows, ds.cols>>

\* the value of the Matrix Result at a multi-index of its logical shape
ResultAt(ds, idx) ==
    IF ds.n = 2 THEN Cell(ds, idx[1], 0, idx[2]) ELSE Cell(ds, idx[2], idx[1], idx[3])

DenseReturned == pc = "idle" /\ X # None /\ ~IsError(X)
SparseEnded == pc = "idle" /\ S # None
SparseReturned == SparseEnded /\ ~IsError(S)

\* the requests java_to_sparse made, in order, and the rows each one covers
SparseRequests == SelectSeq(requests, LAMBDA rq : rq.caller = "java_to_sparse")
RequestRows(rq) ==
    [m \in 1..rq.count |-> FirstRow(offsetUnit, rq.count, rq.step) + m - 1]

\* C1: the sparse and the dense materialization of the same Matrix Result
\* have the same shape and the same value at every multi-index, for every
\* rows >= 1.
C1_DenseSparseEqual ==
    (DenseReturned /\ SparseEnded) =>
        /\ ~IsError(S)
        /\ S.shape = X.shape
        /\ \A idx \in Indices(X.shape) : At(X, idx) = SparseAt(S, idx)

\* C2: once java_to_sparse has ended, the rows its requests cover, taken in
\* request order, are exactly 0, 1, ..., rows - 1: every row once, in order.
C2_ChunksCoverRows ==
    SparseEnded =>
        Flatten([k \in 1..Len(SparseRequests) |-> RequestRows(SparseRequests[k])])
            = Range(generatedDataset.rows)

\* C3: with rows < 10 java_to_sparse uses a chunk size of 1, raises no error
\* and returns a sparse result with exactly rows rows.
C3_SmallRowsClamped ==
    (SparseEnded /\ generatedDataset.rows < ChunkDivisor) =>
        /\ ~IsError(S)
        /\ threshold = 1
        /\ S.shape = LogicalShape(generatedDataset)

\* C4: the 3-axis dense tensor T has shape (contexts, rows, cols) and
\* T[z][i][j] is the j-th value of the z-th segment of serialized row i.
C4_DenseTransposed ==
    (DenseReturned /\ generatedDataset.n = 3) =>
        /\ X.shape = LogicalShape(generatedDataset)
        /\ \A idx \in Indices(X.shape) :
              At(X, idx) = Cell(generatedDataset, idx[2], idx[1], idx[3])

C6_SparseShape ==
    SparseEnded =>
        /\ ~IsError(S)
        /\ S.shape = LogicalShape(generatedDataset)
        /\ \A k \in 1..Len(tensors) : Prod(tensors[k].shape) > 0

\* the number of edges of a graph between nodes of type a and nodes of type b
EdgeCount(g, a, b) ==
    IF g.framework = "networkx"
    THEN Cardinality({p \in DOMAIN g.edges : {q[1] : q \in p} = {a, b}})
    ELSE LET t == IF {a, b} = {"row", "col"} THEN "row_col"
                  ELSE IF {a, b} = {"row", "ctx"} THEN "row_ctx" ELSE "col_ctx"
         IN IF t \in DOMAIN g.edges THEN Len(g.edges[t]) ELSE 0

\* all its edges
EdgeTotal(g) ==
    EdgeCount(g, "row", "col") + EdgeCount(g, "row", "ctx") + EdgeCount(g, "col", "ctx")

\* the number a weight stands for, whether it is held as a float or as a string
Number(w) == IF w.type = "str" THEN ParseFrom(w.val, 1, 0) ELSE w.val

\* the graph has an edge between node i of type a and node j of type b that
\* carries the value v as its weight
HasEdge(g, a, i, b, j, v) ==
    IF g.framework = "networkx"
    THEN /\ {<<a, i>>, <<b, j>>} \in DOMAIN g.edges
         /\ Number(g.edges[{<<a, i>>, <<b, j>>}]) = v
    ELSE LET t == a \o "_" \o b
         IN \E k \in 1..Len(g.edges[t]) :
               g.edges[t][k] = <<i, j>> /\ Number(g.w[t][k]) = v

GraphBuilt == pc = "idle" /\ G # None

\* C7: the graph has rows*cols edges in all for a 2-axis tensor and
\* 3*rows*cols*contexts for a 3-axis tensor, with either backend.
C7_TotalEdges ==
    GraphBuilt =>
        EdgeTotal(G) = IF generatedDataset.n = 2
                       THEN generatedDataset.rows * generatedDataset.cols
                       ELSE 3 * generatedDataset.rows * generatedDataset.cols
                              * generatedDataset.contexts

\* C8 as stated: in every graph, of either backend, each edge type has as
\* many edges as the product of the sizes of its two node partitions.
C8_EdgesPerType ==
    GraphBuilt =>
        /\ EdgeCount(G, "row", "col") = generatedDataset.rows * generatedDataset.cols
        /\ generatedDataset.n = 3 =>
              /\ EdgeCount(G, "row", "ctx")
                    = generatedDataset.rows * generatedDataset.contexts
              /\ EdgeCount(G, "col", "ctx")
                    = generatedDataset.cols * generatedDataset.contexts

\* C8 as amended: each edge type has as many edges as the product of the
\* sizes of its two node partitions in every 2-axis graph and in the 3-axis
\* networkx graph; in the 3-axis dgl graph each of the three edge types has
\* rows*cols*contexts edges, one per cell.
C8_EdgesPerTypeAmended ==
    GraphBuilt =>
        IF generatedDataset.n = 3 /\ G.framework = "dgl"
        THEN \A t \in {<<"row", "col">>, <<"row", "ctx">>, <<"col", "ctx">>} :
                EdgeCount(G, t[1], t[2])
                    = generatedDataset.rows * generatedDataset.cols
                        * generatedDataset.contexts
        ELSE C8_EdgesPerType

C8_Witness ==
    /\ GraphBuilt
    /\ generatedDataset.n = 3
    /\ G.framework = "dgl"
    /\ generatedDataset.rows = 10
    /\ generatedDataset.cols = 2
    /\ generatedDataset.contexts = 2
    /\ EdgeCount(G, "row", "ctx") = 40

\* C9: for a 3-axis tensor x and every cell (z, i, j) the graph has an edge
\* row_i-col_j, an edge row_i-ctx_z and an edge col_j-ctx_z that each carry
\* the weight x[z][i][j], with either backend.
C9_CellWeightsKept ==
    (GraphBuilt /\ generatedDataset.n = 3) =>
        \A idx \in Indices(X.shape) :
            LET w == At(X, idx)
            IN /\ HasEdge(G, "row", idx[2], "col", idx[3], w)
               /\ HasEdge(G, "row", idx[2], "ctx", idx[1], w)
               /\ HasEdge(G, "col", idx[3], "ctx", idx[1], w)

\* C10: for a 2-axis tensor x both backends give exactly one edge between
\* row node i and column node j for every cell (i, j), of weight x[i][j],
\* and no other edge.
C10_OneEdgePerCell ==
    (GraphBuilt /\ generatedDataset.n = 2) =>
        /\ EdgeTotal(G) = X.shape[1] * X.shape[2]
        /\ EdgeCount(G, "row", "col") = EdgeTotal(G)
        /\ \A idx \in Indices(X.shape) :
              HasEdge(G, "row", idx[1], "col", idx[2], At(X, idx))
        /\ G.framework = "dgl" =>
              /\ DOMAIN G.edges = {"row_col"}
              /\ \A k, m \in 1..Len(G.edges.row_col) :
                    G.edges.row_col[k] = G.edges.row_col[m] => k = m

C10_Witness ==
    /\ GraphBuilt
    /\ generatedDataset.n = 2
    /\ G.framework = "dgl"
    /\ generatedDataset.rows = 21
    /\ generatedDataset.cols = 2
    /\ EdgeTotal(G) = 42

\* the number of nodes of a type in a graph, and their cluster attributes
NodeCount(g, type) ==
    IF g.framework = "networkx"
    THEN Cardinality({name \in DOMAIN g.nodes : name[1] = type})
    ELSE IF type \in DOMAIN g.num_nodes THEN g.num_nodes[type] ELSE 0

ClusterValues(g, type) ==
    IF g.framework = "networkx"
    THEN {g.nodes[name].cluster : name \in {q \in DOMAIN g.nodes : q[1] = type}}
    ELSE IF type \in DOMAIN g.c THEN {g.c[type][k] : k \in 1..Len(g.c[type])} ELSE {}

\* C11: every graph has exactly rows nodes of type row, cols nodes of type
\* col and, for a 3-axis tensor only, contexts nodes of type ctx; every node
\* has a cluster attribute and all cluster attributes are 0.
C11_NodesUnclustered ==
    GraphBuilt =>
        /\ NodeCount(G, "row") = generatedDataset.rows
        /\ NodeCount(G, "col") = generatedDataset.cols
        /\ NodeCount(G, "ctx") = IF generatedDataset.n = 3
                                 THEN generatedDataset.contexts ELSE 0
        /\ \A type \in {"row", "col", "ctx"} : ClusterValues(G, type) \subseteq {0}
        /\ G.framework = "dgl" =>
              \A type \in DOMAIN G.num_nodes : Len(G.c[type]) = G.num_nodes[type]

C11_Witness ==
    /\ GraphBuilt
    /\ generatedDataset.n = 3
    /\ G.framework = "networkx"
    /\ generatedDataset.rows = 10
    /\ generatedDataset.cols = 2
    /\ generatedDataset.contexts = 1
    /\ NodeCount(G, "row") = 10
    /\ ClusterValues(G, "ctx") = {0}

\* the requests java_to_numpy made
DenseRequests == SelectSeq(requests, LAMBDA rq : rq.caller = "java_to_numpy")

\* C14: java_to_numpy makes exactly one request, for rows rows from 0 with
\* the last argument False; java_to_sparse makes its requests one after the
\* other, step 0, 1, 2, ..., each for at most max(1, floor(rows/10)) rows,
\* and none of them asks for all the rows when rows >= 20.
C14_RequestSizes ==
    /\ Len(DenseRequests) = IF X = None THEN 0 ELSE 1
    /\ \A k \in 1..Len(DenseRequests) :
          DenseRequests[k] = [caller |-> "java_to_numpy", count |-> generatedDataset.rows,
                              step |-> 0, header |-> FALSE]
    /\ \A k \in 1..Len(SparseRequests) :
          LET rq == SparseRequests[k]
              most == IF generatedDataset.rows \div 10 > 1
                      THEN generatedDataset.rows \div 10 ELSE 1
          IN /\ rq.count >= 1
             /\ rq.count <= most
             /\ rq.step = k - 1
             /\ rq.header = FALSE
             /\ generatedDataset.rows >= 20 => rq.count < generatedDataset.rows

C14_Witness ==
    /\ DenseReturned
    /\ SparseReturned
    /\ generatedDataset.rows = 21
    /\ Len(DenseRequests) = 1
    /\ Len(SparseRequests) = 10
    /\ SparseRequests[10].count = 2

\* C13: when a serialized row of a 3-axis Matrix Result has a number of
\* values other than contexts*cols, neither materializer returns a tensor:
\* each one ends with an error, also when chunks were already accumulated.
C13_MalformedRaises ==
    /\ (pc = "idle" /\ X # None) => IsError(X)
    /\ SparseEnded => IsError(S)

\* --------------------------------------------- constructing and building
Classes == {"BiclusterGenerator", "BiclusterGeneratorbyConfig",
            "TriclusterGenerator", "TriclusterGeneratorbyConfig"}

ByConfig == {"BiclusterGeneratorbyConfig", "TriclusterGeneratorbyConfig"}

ContiguityNames == {"NONE", "COLUMNS", "CONTEXTS"}

\* the keyword arguments of a constructor call, or the content of a
\* configuration file
Configs ==
    {[contiguity |-> c] : c \in ContiguityNames}
    \cup {[seed |-> s] : s \in 0..MaxSeed}
    \cup {[contiguity |-> c, seed |-> s] : c \in ContiguityNames, s \in 0..MaxSeed}

\* the parameter lists handed to build_generator
ParamLists == UNION {[1..len -> 1..MaxParamValue] : len \in 1..MaxParams}

EngineClasses == {"NumericDatasetGenerator", "SymbolicDatasetGenerator"}

InitBuild ==
    /\ generatedDataset = None
    /\ offsetUnit = "row"
    /\ pc = "build"
    /\ requests = <<>>
    /\ X = None
    /\ threshold = 0
    /\ steps = <<>>
    /\ stepIdx = 0
    /\ tensors = <<>>
    /\ S = None
    /\ G = None
    /\ self = None
    /\ config = None
    /\ inits = <<>>
    /\ structure = None
    /\ params = <<>>
    /\ buildCall = None
    /\ engineCall = None

matVars == <<generatedDataset, offsetUnit, pc, requests, X, threshold, steps, stepIdx,
             tensors, S, G>>

\* class(**given) or class(file_path): given is None for a call without
\* arguments and for a by-config call without a file path
Construct(class, given) ==
    /\ pc = "build"
    /\ self = None
    /\ LET calls == IF class = "BiclusterGeneratorbyConfig" THEN Bi_byConfig_init(given)
                    ELSE IF class = "TriclusterGeneratorbyConfig"
                         THEN Tri_byConfig_init(given)
                    ELSE IF given # None THEN <<given>> ELSE <<NoKwargs>>
       IN /\ self' = Constructed(class, calls)
          /\ inits' = calls
    /\ config' = given
    /\ UNCHANGED <<structure, params, buildCall, engineCall>>
    /\ UNCHANGED matVars

BuildStructure ==
    /\ pc = "build"
    /\ self # None
    /\ structure = None
    /\ LET r == IF self.n = 2 THEN Bi_build_structure(self) ELSE Tri_build_structure(self)
       IN /\ self' = r.self
          /\ structure' = r.structure
    /\ UNCHANGED <<config, inits, params, buildCall, engineCall>>
    /\ UNCHANGED matVars

BuildGenerator(class_call, lst, contexts_index) ==
    /\ pc = "build"
    /\ self # None
    /\ buildCall = None
    /\ contexts_index \in 0..(Len(lst) - 1)
    /\ buildCall' = [class_call |-> class_call, params |-> lst,
                     contexts_index |-> contexts_index]
    /\ LET r == IF self.n = 2 THEN Bi_build_generator(class_call, lst, contexts_index)
                ELSE Tri_build_generator(class_call, lst, contexts_index)
       IN /\ params' = r.params
          /\ engineCall' = r.call
    /\ UNCHANGED <<self, config, inits, structure>>
    /\ UNCHANGED matVars

NextBuild ==
    \/ \E class \in Classes, given \in Configs \cup {None} : Construct(class, given)
    \/ BuildStructure
    \/ \E class_call \in EngineClasses, lst \in ParamLists,
          contexts_index \in 0..(MaxParams - 1) :
            BuildGenerator(class_call, lst, contexts_index)

SpecBuild == InitBuild /\ [][NextBuild]_vars

\* C12: a build_structure step of the 2-axis generator leaves the generator's
\* contiguity other than CONTEXTS and gives the structure NONE when CONTEXTS was
\* configured and the configured value when it was NONE or COLUMNS; a step of
\* the 3-axis generator leaves the generator as it was and gives the structure
\* its contiguity, CONTEXTS included.
C12_Normalized ==
    (structure = None /\ structure' # None) =>
        IF self.n = 2
        THEN /\ self'.contiguity # "CONTEXTS"
             /\ structure'.contiguity = self'.contiguity
             /\ self'.contiguity = (IF self.contiguity = "CONTEXTS" THEN "NONE"
                                    ELSE self.contiguity)
             /\ self' = [self EXCEPT !.contiguity = self'.contiguity]
        ELSE /\ self' = self
             /\ structure'.contiguity = self.contiguity

C12_ContiguityNormalized == [][C12_Normalized]_vars

C12_Witness ==
    /\ structure # None
    /\ self.class = "BiclusterGenerator"
    /\ config # None
    /\ "contiguity" \in DOMAIN config
    /\ config.contiguity = "CONTEXTS"
    /\ structure.contiguity = "NONE"
    /\ self.contiguity = "NONE"

\* C15: when a by-config constructor has returned, a generator made from a
\* configuration file has every parameter of the file and was initialized
\* once, with those parameters; one made without a file path was initialized
\* once, with the defaults.
C15_FileParamsKept ==
    (self # None /\ self.class \in ByConfig /\ structure = None) =>
        IF config # None
        THEN /\ \A k \in DOMAIN config : self[k] = config[k]
             /\ inits = <<config>>
        ELSE /\ inits = <<NoKwargs>>
             /\ self = GeneratorInit(self.class, self.n, NoKwargs)

\* C16: after build_generator, the 2-axis generator has called the engine class
\* with the given list without the entry at contexts_index, the others in their
\* order, and the caller's list has lost that entry; the 3-axis generator has
\* called it with every entry and the caller's list is as given.
C16_ParamsPassed ==
    buildCall # None =>
        LET lst == buildCall.params
            k == buildCall.contexts_index
        IN /\ engineCall.class = buildCall.class_call
           /\ engineCall.args = params
           /\ IF self.n = 2
              THEN /\ Len(params) = Len(lst) - 1
                   /\ \A i \in 1..Len(params) :
                        params[i] = (IF i <= k THEN lst[i] ELSE lst[i + 1])
              ELSE params = lst

C16_Witness ==
    /\ buildCall # None
    /\ self.n = 2
    /\ Len(buildCall.params) = MaxParams
    /\ buildCall.contexts_index = 1
    /\ buildCall.params[1] # buildCall.params[2]
    /\ Len(engineCall.args) = MaxParams - 1
    /\ Len(params) = MaxParams - 1

====
